---- MODULE Spec2Model ----
(***************************************************************************)
(* A model of realtime_gtfs: the entity builders of                       *)
(* classes/GTFSRealtimeClasses.py, the feed assembler                     *)
(* RealTimeGTFSConstructor and the delay estimator calculate_delays.      *)
(*                                                                         *)
(* A protobuf message is a function from the names of its set fields to   *)
(* their values: a field is present exactly when its name is in the       *)
(* DOMAIN.  A Python dict is the same, an absent key standing for None.   *)
(* A Python str is a sequence of one-character strings, so that joining   *)
(* and iterating a str are what Python does.                              *)
(***************************************************************************)
EXTENDS Integers, Sequences, FiniteSets, TLC

VARIABLES message, metadata, result, call, added, calls, built, delays

(* message, metadata: the fields of one RealTimeGTFSConstructor.            *)
(* call, result: the arguments (operation, batch size, is_differential)    *)
(* and the outcome (None, the message, an exception) of the last           *)
(* generation call; calls counts the calls made.                           *)
(* added: history, the input record of each entity appended to the         *)
(* message, in order.                                                      *)
(* built: the last entity builder applied, with its input and its outcome. *)
(* delays: the last call of calculate_delays, with its inputs and outcome. *)
vars == <<message, metadata, result, call, added, calls, built, delays>>

(* ------------------------------ bounds -------------------------------- *)

MaxCalls == 2
MaxBatch == 2
MaxStops == 2
MaxItems == 2
MaxKeys == 2

(* ------------------------------ strings ------------------------------- *)

Empty == <<>>

SPACE == " "

T1 == <<"t", "1">>
T2 == <<"t", "2">>
R1 == <<"r", "1">>
A1 == <<"a", "1">>

DigitChar == <<"0", "1", "2", "3", "4", "5", "6", "7", "8", "9">>

\* str(n) of a one-digit non-negative integer
Str(n) == <<DigitChar[n + 1]>>

RECURSIVE JoinSpace(_)
\* ' '.join(items): the items, in order, separated by one space
JoinSpace(items) ==
  IF Len(items) = 0 THEN Empty
  ELSE IF Len(items) = 1 THEN items[1]
  ELSE items[1] \o <<SPACE>> \o JoinSpace(Tail(items))

(* ------------------------- protobuf messages -------------------------- *)

(* A message is a function from the paths of its set fields to their      *)
(* values: msg.vehicle.trip.trip_id = v sets the path                     *)
(* <<"vehicle", "trip", "trip_id">>.  A sub-message is present exactly    *)
(* when a field below it is set, as in protobuf.                          *)

IsPrefix(prefix, path) ==
  /\ Len(prefix) <= Len(path)
  /\ \A i \in 1..Len(prefix) : path[i] = prefix[i]

\* msg.HasField(...): some field at or below the path is set
HasField(msg, prefix) == \E path \in DOMAIN msg : IsPrefix(prefix, path)

Has(data, k) == k \in DOMAIN data

\* msg.a.b.c = v
SetField(msg, path, v) == (path :> v) @@ msg

\* the value at a path; an unset repeated field reads as the empty list
GetField(msg, path) == IF path \in DOMAIN msg THEN msg[path] ELSE Empty

\* msg.a.b.append(item) on a repeated field
AppendField(msg, path, item) ==
  SetField(msg, path, Append(GetField(msg, path), item))

Raise(exc) == [ok |-> FALSE, exc |-> exc]

Built(entity) == [ok |-> TRUE, entity |-> entity]

(* --------------------------- RealTimeEntity ---------------------------- *)

\* the fields whose absence (None) makes a protobuf scalar assignment raise
VehicleRequired ==
  {"id", "latitude", "longitude", "odometer", "speed", "trip_id", "route_id",
   "current_status"}

TripUpdateRequired == {"id", "trip_id", "route_id"}

\* __init__: an unparseable or absent datetime parses to None, and
\* update_time_and_date then reads .date() of None
InitRaises(data) == ~Has(data, "datetime")

populate_trip_descriptor(entity, data, setting) ==
  IF setting = "vehicle_position"
  THEN LET e1 == SetField(entity, <<"vehicle", "trip", "trip_id">>, data.trip_id)
           e2 == SetField(e1, <<"vehicle", "trip", "route_id">>, data.route_id)
       IN IF Has(data, "start_time")
          THEN SetField(e2, <<"vehicle", "trip", "start_time">>, data.start_time)
          ELSE e2
  ELSE IF setting = "trip_update"
  THEN LET e1 == SetField(entity, <<"trip_update", "trip", "trip_id">>, data.trip_id)
           e2 == SetField(e1, <<"trip_update", "trip", "route_id">>, data.route_id)
           e3 == IF Has(data, "start_time")
                 THEN SetField(e2, <<"vehicle", "trip", "start_time">>, data.start_time)
                 ELSE e2
       IN IF Has(data, "start_date")
          THEN SetField(e3, <<"vehicle", "trip", "start_date">>, data.start_date)
          ELSE e3
  ELSE entity

(* ------------------------ VehiclePositionEntity ------------------------ *)

populate_position(entity, data) ==
  LET e1 == SetField(entity, <<"vehicle", "position", "latitude">>, data.latitude)
      e2 == SetField(e1, <<"vehicle", "position", "longitude">>, data.longitude)
      e3 == SetField(e2, <<"vehicle", "position", "odometer">>, data.odometer)
  IN SetField(e3, <<"vehicle", "position", "speed">>, data.speed)

VehiclePositionEntity(data) ==
  IF InitRaises(data) THEN Raise("AttributeError")
  ELSE IF ~(VehicleRequired \subseteq DOMAIN data) THEN Raise("TypeError")
  ELSE
    LET e1 == SetField(Empty, <<"id">>, data.id)
        e2 == populate_position(e1, data)
        e3 == populate_trip_descriptor(e2, data, "vehicle_position")
        e4 == SetField(e3, <<"vehicle", "occupancy_status">>,
                IF Has(data, "occupancy_status") THEN data.occupancy_status ELSE Empty)
        e5 == SetField(e4, <<"vehicle", "congestion_level">>,
                IF Has(data, "congestion_level") THEN data.congestion_level ELSE Empty)
        e6 == IF Has(data, "stop_sequence")
              THEN SetField(e5, <<"vehicle", "current_stop_sequence">>, data.stop_sequence)
              ELSE e5
        e7 == SetField(e6, <<"vehicle", "stop_id">>,
                IF Has(data, "stop_id") THEN data.stop_id ELSE Empty)
    IN Built(SetField(e7, <<"vehicle", "current_status">>, data.current_status))

(* -------------------------- TripUpdateEntity --------------------------- *)

\* timedelta.seconds: the seconds component of the normalised
\* (days, seconds) pair, 0 <= seconds < 86400; t is the total in seconds
TimedeltaSeconds(t) == t % 86400

populate_stop_time_update(stop_time_data) ==
  [stop_sequence |-> stop_time_data.stop_sequence,
   stop_id |-> Str(stop_time_data.stop_id),
   arrival |-> [delay |-> TimedeltaSeconds(stop_time_data.arrival)],
   departure |-> [delay |-> TimedeltaSeconds(stop_time_data.departure)]]

RECURSIVE populate_stop_times(_, _)
\* predictions: [given |-> FALSE] for None, else [given |-> TRUE, list |-> ...]
populate_stop_times(entity, predictions) ==
  IF ~predictions.given THEN entity
  ELSE IF Len(predictions.list) = 0 THEN entity
  ELSE populate_stop_times(
         AppendField(entity, <<"trip_update", "stop_time_update">>,
                     populate_stop_time_update(Head(predictions.list))),
         [given |-> TRUE, list |-> Tail(predictions.list)])

TripUpdateEntity(data, predictions) ==
  IF InitRaises(data) THEN Raise("AttributeError")
  ELSE IF ~(TripUpdateRequired \subseteq DOMAIN data) THEN Raise("TypeError")
  ELSE
    LET e1 == SetField(Empty, <<"id">>, data.id)
        e2 == populate_trip_descriptor(e1, data, "trip_update")
    IN Built(populate_stop_times(e2, predictions))

(* -------------------------------- Alert ------------------------------- *)

generate_translation(data) == [text |-> data.text, language |-> data.language]

RECURSIVE AppendAll(_, _, _)
\* for item in items: msg.<path>.append(item)
AppendAll(msg, path, items) ==
  IF Len(items) = 0 THEN msg
  ELSE AppendAll(AppendField(msg, path, Head(items)), path, Tail(items))

populate_url(entity, data) ==
  AppendAll(entity, <<"alert", "url", "translation">>,
            [i \in 1..Len(data.url_data) |-> generate_translation(data.url_data[i])])

populate_header_text(entity, data) ==
  AppendAll(entity, <<"alert", "header_text", "translation">>,
            [i \in 1..Len(data.header_text_data) |->
               generate_translation(data.header_text_data[i])])

populate_description_text(entity, data) ==
  AppendAll(entity, <<"alert", "header_text", "translation">>,
            [i \in 1..Len(data.description_text_data) |->
               generate_translation(data.description_text_data[i])])

\* the keys of a trips item that are copied into the selector's trip
TripSelectorKeys == {"trip_id", "route_id", "start_time", "start_date"}

populate_trip_entity(item) ==
  [path \in {<<"trip", k>> : k \in DOMAIN item \cap TripSelectorKeys} |-> item[path[2]]]

RouteSelector(item) == SetField(Empty, <<"route_id">>, item)

AgencySelector(item) == SetField(Empty, <<"agency_id">>, item)

RouteTypeSelector(item) == SetField(Empty, <<"route_type">>, item)

\* populate_entity_selector with an unrecognised type handled as routes
populate_entity_selector_unknown_as_routes(entity_type, items) ==
  IF entity_type = "agencies" THEN [i \in 1..Len(items) |-> AgencySelector(items[i])]
  ELSE IF entity_type = "route_types" THEN [i \in 1..Len(items) |-> RouteTypeSelector(items[i])]
  ELSE IF entity_type = "trips" THEN [i \in 1..Len(items) |-> populate_trip_entity(items[i])]
  ELSE [i \in 1..Len(items) |-> RouteSelector(items[i])]

populate_entity_selector(entity_type, items) ==
  IF entity_type = "routes" THEN [i \in 1..Len(items) |-> RouteSelector(items[i])]
  ELSE IF entity_type = "agencies" THEN [i \in 1..Len(items) |-> AgencySelector(items[i])]
  ELSE IF entity_type = "route_types" THEN [i \in 1..Len(items) |-> RouteTypeSelector(items[i])]
  ELSE IF entity_type = "trips" THEN [i \in 1..Len(items) |-> populate_trip_entity(items[i])]
  ELSE <<>>

RECURSIVE SelectorsOf(_)
\* temp_output: the selectors of every key of selected_entities, in key order;
\* the dict is a sequence of [key, items] in its insertion order
SelectorsOf(selected) ==
  IF Len(selected) = 0 THEN <<>>
  ELSE populate_entity_selector(Head(selected).key, Head(selected).items)
       \o SelectorsOf(Tail(selected))

populate_selected_entities(entity, data) ==
  AppendAll(entity, <<"alert", "informed_entity">>, SelectorsOf(data.selected_entities))

TimeRange(interval) == [start |-> interval.start, end |-> interval.end]

populate_time_ranges(entity, data) ==
  AppendAll(entity, <<"alert", "active_period">>, [i \in 1..Len(data.time_periods) |-> TimeRange(data.time_periods[i])])

populate_cause_and_effect(entity, data) ==
  SetField(SetField(entity, <<"alert", "cause">>, data.cause),
           <<"alert", "effect">>, data.effect)

\* __populate_entity: each step reads its input without a None test, so the
\* first absent one raises TypeError and no entity is built
Alert(data) ==
  IF ~Has(data, "id") THEN Raise("TypeError")
  ELSE IF ~Has(data, "time_periods") THEN Raise("TypeError")
  ELSE IF ~Has(data, "selected_entities") THEN Raise("TypeError")
  ELSE IF ~Has(data, "cause") \/ ~Has(data, "effect") THEN Raise("TypeError")
  ELSE IF ~Has(data, "url_data") THEN Raise("TypeError")
  ELSE IF ~Has(data, "header_text_data") THEN Raise("TypeError")
  ELSE IF ~Has(data, "description_text_data") THEN Raise("TypeError")
  ELSE
    LET e1 == SetField(Empty, <<"id">>, data.id)
        e2 == populate_time_ranges(e1, data)
        e3 == populate_selected_entities(e2, data)
        e4 == populate_cause_and_effect(e3, data)
        e5 == populate_url(e4, data)
        e6 == populate_header_text(e5, data)
    IN Built(populate_description_text(e6, data))

(* ---------------------- RealTimeGTFSConstructor ----------------------- *)

fields_to_collect == <<"trip_id", "route_id", "agency_id">>

\* field + 's'
MetadataKey == [trip_id |-> "trip_ids", route_id |-> "route_ids", agency_id |-> "agency_ids"]

\* a metadata value is a Python list of ids or, once joined, a Python str
ListOf(items) == [kind |-> "list", v |-> items]

StrOf(chars) == [kind |-> "str", v |-> chars]

InitialMetadata ==
  [trip_ids |-> ListOf(<<>>), route_ids |-> ListOf(<<>>), agency_ids |-> ListOf(<<>>)]

RECURSIVE collect_metadata(_, _, _)
\* list.append on each collected field the record has; a str has no append
collect_metadata(md, entity_data, fields) ==
  IF Len(fields) = 0 THEN [ok |-> TRUE, metadata |-> md]
  ELSE LET field == Head(fields)
           key == MetadataKey[field]
       IN IF ~Has(entity_data, field)
          THEN collect_metadata(md, entity_data, Tail(fields))
          ELSE IF md[key].kind = "str"
          THEN [ok |-> FALSE, metadata |-> md]
          ELSE collect_metadata([md EXCEPT ![key] = ListOf(Append(@.v, entity_data[field]))],
                                entity_data, Tail(fields))

\* [str(x) for x in value]: the items of a list, the characters of a str
Iterate(value) ==
  IF value.kind = "list" THEN value.v
  ELSE [i \in 1..Len(value.v) |-> <<value.v[i]>>]

finalize_metadata(md) == [key \in DOMAIN md |-> StrOf(JoinSpace(Iterate(md[key])))]

populate_header(msg, is_differential, now) ==
  LET m1 == SetField(msg, <<"header", "gtfs_realtime_version">>, "2.0")
      m2 == SetField(m1, <<"header", "incrementality">>,
                     IF is_differential THEN "DIFFERENTIAL" ELSE "FULL_DATASET")
  IN SetField(m2, <<"header", "timestamp">>, now)

BuildEntity(op, item) ==
  IF op = "avl" THEN VehiclePositionEntity(item)
  ELSE IF op = "trip_updates"
  THEN TripUpdateEntity(item.entity_data, item.stop_times_predictions)
  ELSE Alert(item)

\* the dict handed to __collect_metadata
CollectedFrom(op, item) == IF op = "trip_updates" THEN item.entity_data ELSE item

RECURSIVE RunBatch(_, _, _, _, _)
\* the for loop of a generation call: per record, build the entity, append it
\* to the message, then collect its metadata; an exception ends the call and
\* leaves what was done so far
RunBatch(msg, md, history, op, batch) ==
  IF Len(batch) = 0
  THEN [message |-> msg, metadata |-> md, added |-> history, raised |-> "no",
        at |-> "nowhere"]
  ELSE LET item == Head(batch)
           b == BuildEntity(op, item)
           c == collect_metadata(md, CollectedFrom(op, item), fields_to_collect)
       IN IF ~b.ok
          THEN [message |-> msg, metadata |-> md, added |-> history, raised |-> b.exc,
                at |-> "entity constructor"]
          ELSE IF ~c.ok
          THEN [message |-> AppendField(msg, <<"entity">>, b.entity),
                metadata |-> c.metadata,
                added |-> Append(history, CollectedFrom(op, item)),
                raised |-> "AttributeError", at |-> "__collect_metadata"]
          ELSE RunBatch(AppendField(msg, <<"entity">>, b.entity), c.metadata,
                        Append(history, CollectedFrom(op, item)), op, Tail(batch))

IsEmptyBatch_negative_length(data_of_entities) == Len(data_of_entities) < 0

\* len(data_of_entities) == 0
IsEmptyBatch(data_of_entities) == Len(data_of_entities) = 0

\* lines 53-59 once the loop has ended: the exception goes to the caller,
\* else the header is populated, the metadata finalized, the message returned
FinishFeed(run, is_differential, now) ==
  IF run.raised # "no"
  THEN [message |-> run.message, metadata |-> run.metadata, added |-> run.added,
        result |-> [kind |-> "raised", exc |-> run.raised, at |-> run.at]]
  ELSE [message |-> populate_header(run.message, is_differential, now),
        metadata |-> finalize_metadata(run.metadata), added |-> run.added,
        result |-> [kind |-> "message"]]

\* one generation call, from its first line to its return or its exception:
\* what it leaves in the message, the metadata and the history, and its outcome
GenerateFeed(op, data_of_entities, is_differential, now) ==
  IF IsEmptyBatch(data_of_entities)
  THEN [message |-> message, metadata |-> metadata, added |-> added,
        result |-> [kind |-> "None"]]
  ELSE CHOOSE o \in {FinishFeed(run, is_differential, now) :
                       run \in {RunBatch(message, metadata, added, op, data_of_entities)}} :
         TRUE

(* -------------------------- calculate_delays --------------------------- *)

lower_limit == 10

upper_limit == 100

Min(a, b) == IF a <= b THEN a ELSE b

Max(a, b) == IF a >= b THEN a ELSE b

\* round(n / d) for d > 0: Python rounds a half to the even neighbour
RoundHalfEven(n, d) ==
  LET q == n \div d
      r == n % d
  IN IF 2 * r < d THEN q
     ELSE IF 2 * r > d THEN q + 1
     ELSE IF q % 2 = 0 THEN q ELSE q + 1

\* round(math.sqrt(num / den)) for num >= 0, den > 0
RoundSqrt(num, den) ==
  CHOOSE n \in 0..(num + 1) :
    /\ \/ n = 0
       \/ 4 * num > (2 * n - 1) * (2 * n - 1) * den
       \/ 4 * num = (2 * n - 1) * (2 * n - 1) * den /\ n % 2 = 0
    /\ \/ 4 * num < (2 * n + 1) * (2 * n + 1) * den
       \/ 4 * num = (2 * n + 1) * (2 * n + 1) * den /\ n % 2 = 0

\* an acceleration is None or a float, here a whole number of halves
NoAcceleration == [given |-> FALSE]

Halves(h) == [given |-> TRUE, halves |-> h]

Abs(x) == IF x < 0 THEN -x ELSE x

\* line 37: round(current_acceleration) != 0
RoundsToNonzero(current_acceleration) == RoundHalfEven(current_acceleration.halves, 2) # 0

\* lines 38-46 for an acceleration that is a number: the outcome of the
\* computation of time_until_next_stop
time_until_next_stop(speed_to_use, current_acceleration, next_stop_distance) ==
  IF ~RoundsToNonzero(current_acceleration)
  THEN [ok |-> TRUE, t |-> RoundHalfEven(next_stop_distance, speed_to_use)]
  ELSE IF (next_stop_distance > 0 /\ current_acceleration.halves < 0)
          \/ (next_stop_distance < 0 /\ current_acceleration.halves > 0)
  THEN [ok |-> FALSE, exc |-> "ValueError"]
  ELSE [ok |-> TRUE,
        t |-> RoundSqrt(4 * Abs(next_stop_distance), Abs(current_acceleration.halves))]

WithDelay(next_stop, t) == ("delay" :> t) @@ next_stop

WithArrivalDepartureDelay(next_stop, t) ==
  ("arrival" :> next_stop.arrival_time + t)
  @@ ("departure" :> next_stop.departure_time + t)
  @@ ("delay" :> t) @@ next_stop

\* the delay recomputed from each stop's own distance
calculate_delays_per_stop(current_speed, current_acceleration, stop_times, add_delay_to_stop_times) ==
  IF ~stop_times.given THEN [kind |-> "None"]
  ELSE IF Len(stop_times.list) = 0 THEN [kind |-> "None"]
  ELSE
    LET speed_to_use == Max(lower_limit, Min(upper_limit, current_speed))
        T(i) == time_until_next_stop(speed_to_use, current_acceleration,
                                     stop_times.list[i].shape_dist_traveled)
    IN IF ~current_acceleration.given
       THEN [kind |-> "raised", exc |-> "TypeError"]
       ELSE IF \E i \in 1..Len(stop_times.list) : ~T(i).ok
       THEN [kind |-> "raised", exc |-> "ValueError"]
       ELSE [kind |-> "list",
             stop_times |->
               [i \in 1..Len(stop_times.list) |->
                  IF add_delay_to_stop_times
                  THEN WithArrivalDepartureDelay(stop_times.list[i], T(i).t)
                  ELSE WithDelay(stop_times.list[i], T(i).t)]]

calculate_delays(current_speed, current_acceleration, stop_times, add_delay_to_stop_times) ==
  IF ~stop_times.given THEN [kind |-> "None"]
  ELSE IF Len(stop_times.list) = 0 THEN [kind |-> "None"]
  ELSE
    LET next_stop_distance == stop_times.list[1].shape_dist_traveled
        speed_to_use == Max(lower_limit, Min(upper_limit, current_speed))
    IN IF ~current_acceleration.given
       THEN [kind |-> "raised", exc |-> "TypeError"]
       ELSE LET r == time_until_next_stop(speed_to_use, current_acceleration,
                                          next_stop_distance)
            IN IF ~r.ok THEN [kind |-> "raised", exc |-> r.exc]
               ELSE [kind |-> "list",
                     stop_times |->
                       [i \in 1..Len(stop_times.list) |->
                          IF add_delay_to_stop_times
                          THEN WithArrivalDepartureDelay(stop_times.list[i], r.t)
                          ELSE WithDelay(stop_times.list[i], r.t)]]

(* ------------------------------- inputs -------------------------------- *)

None == [given |-> FALSE]

Given(list) == [given |-> TRUE, list |-> list]

Without(record, dropped) == [k \in DOMAIN record \ dropped |-> record[k]]

SeqsUpTo(S, n) == UNION {[1..k -> S] : k \in 0..n}

FullVehicle(trip) ==
  [id |-> <<"v">>, datetime |-> "2024-01-01T08:00:00", latitude |-> 37,
   longitude |-> 23, odometer |-> 0, speed |-> 12, trip_id |-> trip,
   route_id |-> R1, agency_id |-> A1, start_time |-> "08:00:00",
   start_date |-> "20240101", stop_sequence |-> 0, stop_id |-> <<"s">>,
   current_status |-> "IN_TRANSIT_TO", occupancy_status |-> "EMPTY",
   congestion_level |-> "UNKNOWN_CONGESTION_LEVEL"]

FullTripUpdate(trip) ==
  [id |-> <<"u">>, datetime |-> "2024-01-01T08:00:00", trip_id |-> trip,
   route_id |-> R1, agency_id |-> A1, start_time |-> "08:00:00",
   start_date |-> "20240101"]

FullAlert ==
  [id |-> <<"x">>, agency_id |-> A1, cause |-> "STRIKE", effect |-> "DETOUR",
   time_periods |-> <<[start |-> 100, end |-> 200]>>,
   selected_entities |-> <<[key |-> "routes", items |-> <<R1>>]>>,
   url_data |-> <<[text |-> "http://u", language |-> "en"]>>,
   header_text_data |-> <<[text |-> "head", language |-> "en"]>>,
   description_text_data |-> <<[text |-> "desc", language |-> "en"]>>]

TripIds == {T1, T2}

Offsets == {-5, 0, 10}

Predictions ==
  {[stop_sequence |-> s, stop_id |-> s, arrival |-> a, departure |-> a] :
     s \in 1..2, a \in Offsets}

PredictionLists == {None} \cup {Given(l) : l \in SeqsUpTo(Predictions, MaxStops)}

\* the records of the builders' specification
VehicleOptional ==
  {"datetime", "odometer", "agency_id", "start_time", "start_date", "stop_sequence",
   "stop_id"}

VehicleRecords ==
  {Without(FullVehicle(t), d) : t \in TripIds, d \in SUBSET VehicleOptional}

TripUpdateOptional == {"datetime", "agency_id", "start_time", "start_date"}

TripUpdateRecords == {Without(FullTripUpdate(T1), d) : d \in SUBSET TripUpdateOptional}

AlertOptional ==
  {"time_periods", "selected_entities", "url_data", "header_text_data",
   "description_text_data"}

AlertRecords == {Without(FullAlert, d \cup a) : d \in SUBSET AlertOptional,
                                                 a \in {{}, {"agency_id"}}}

Translations ==
  {[text |-> "closed", language |-> "en"], [text |-> "kleisto", language |-> "el"]}

TranslationLists == SeqsUpTo(Translations, MaxItems)

\* complete alert records, over the contents of the three text blocks
AlertTextRecords ==
  {[FullAlert EXCEPT !.url_data = u, !.header_text_data = h,
                     !.description_text_data = d] :
     u \in TranslationLists, h \in TranslationLists, d \in TranslationLists}

\* the keys of selected_entities: the four selector types and one other key
SelectorKeys == {"routes", "agencies", "route_types", "trips", "stops"}

\* the key orders of a selected_entities dict of at most MaxKeys keys
SelectorKeyLists ==
  {keys \in SeqsUpTo(SelectorKeys, MaxKeys) :
     \A i \in 1..Len(keys), j \in 1..Len(keys) : keys[i] = keys[j] => i = j}

FullTrip ==
  [trip_id |-> T1, route_id |-> R1, start_time |-> "08:00:00",
   start_date |-> "20240101"]

\* trip descriptors of a trips entry, with and without the optional keys
TripItems ==
  {Without(FullTrip, dropped) :
     dropped \in {{}, {"start_time", "start_date"}, {"trip_id", "start_time"},
                  {"route_id", "start_time", "start_date"}}}

\* the item lists a key of selected_entities can hold
ItemsOf(key) ==
  IF key = "routes" THEN SeqsUpTo({<<"A">>, <<"B">>}, MaxItems)
  ELSE IF key = "agencies" THEN SeqsUpTo({A1}, MaxItems)
  ELSE IF key = "route_types" THEN SeqsUpTo({0, 3}, MaxItems)
  ELSE IF key = "trips" THEN SeqsUpTo(TripItems, MaxItems)
  ELSE SeqsUpTo({<<"S">>}, MaxItems)

RECURSIVE SelectedFor(_)
\* the selected_entities dicts whose keys are, in insertion order, keys
SelectedFor(keys) ==
  IF Len(keys) = 0 THEN {<<>>}
  ELSE {<<[key |-> Head(keys), items |-> items]>> \o rest :
          items \in ItemsOf(Head(keys)), rest \in SelectedFor(Tail(keys))}

\* complete alert records, over the contents of selected_entities
AlertSelectorRecords(keys) ==
  {[FullAlert EXCEPT !.selected_entities = selected] : selected \in SelectedFor(keys)}

\* the records of the feed assembler's specification
FeedVehicleRecords ==
  {Without(FullVehicle(T1), {"agency_id", "start_time", "start_date"}),
   FullVehicle(T2)}

FeedTripUpdateRecords ==
  {[entity_data |-> Without(FullTripUpdate(T1), {"agency_id", "start_time", "start_date"}),
    stop_times_predictions |-> None],
   [entity_data |-> FullTripUpdate(T2),
    stop_times_predictions |->
      Given(<<[stop_sequence |-> 1, stop_id |-> 1, arrival |-> 10, departure |-> 10]>>)]}

FeedAlertRecords ==
  {FullAlert, Without(FullAlert, {"agency_id"}),
   Without(FullAlert, {"agency_id", "time_periods"})}

Speeds == {5, 40, 150}

Accelerations == {NoAcceleration} \cup {Halves(h) : h \in {-8, 0, 1, 3, 8}}

Distances == {-20, 25, 50, 100}

Stops == {[shape_dist_traveled |-> d, arrival_time |-> 1000, departure_time |-> 1030] :
            d \in Distances}

StopLists == {None} \cup {Given(l) : l \in SeqsUpTo(Stops, MaxStops)}

(* ------------------------------- actions ------------------------------- *)

Init ==
  /\ message = Empty
  /\ metadata = InitialMetadata
  /\ result = [kind |-> "not called"]
  /\ call = [op |-> "none", n |-> 0, is_differential |-> FALSE]
  /\ added = <<>>
  /\ calls = 0
  /\ built = [kind |-> "none"]
  /\ delays = [kind |-> "none"]

generate_avl_feed ==
  /\ calls < MaxCalls
  /\ \E data_of_entities \in SeqsUpTo(FeedVehicleRecords, MaxBatch), is_differential \in BOOLEAN :
       \E o \in {GenerateFeed("avl", data_of_entities, is_differential, calls + 1)} :
         /\ calls' = calls + 1
         /\ call' = [op |-> "avl", n |-> Len(data_of_entities),
                     is_differential |-> is_differential]
         /\ message' = o.message
         /\ metadata' = o.metadata
         /\ added' = o.added
         /\ result' = o.result
         /\ UNCHANGED <<built, delays>>

generate_trip_updates_feed ==
  /\ calls < MaxCalls
  /\ \E data_of_entities \in SeqsUpTo(FeedTripUpdateRecords, MaxBatch), is_differential \in BOOLEAN :
       \E o \in {GenerateFeed("trip_updates", data_of_entities, is_differential, calls + 1)} :
         /\ calls' = calls + 1
         /\ call' = [op |-> "trip_updates", n |-> Len(data_of_entities),
                     is_differential |-> is_differential]
         /\ message' = o.message
         /\ metadata' = o.metadata
         /\ added' = o.added
         /\ result' = o.result
         /\ UNCHANGED <<built, delays>>

generate_service_alerts_feed ==
  /\ calls < MaxCalls
  /\ \E data_of_entities \in SeqsUpTo(FeedAlertRecords, MaxBatch), is_differential \in BOOLEAN :
       \E o \in {GenerateFeed("alerts", data_of_entities, is_differential, calls + 1)} :
         /\ calls' = calls + 1
         /\ call' = [op |-> "alerts", n |-> Len(data_of_entities),
                     is_differential |-> is_differential]
         /\ message' = o.message
         /\ metadata' = o.metadata
         /\ added' = o.added
         /\ result' = o.result
         /\ UNCHANGED <<built, delays>>

BuildVehiclePosition ==
  \E data \in VehicleRecords :
    /\ built.kind = "none"
    /\ built' = [kind |-> "vehicle_position", data |-> data,
                 out |-> VehiclePositionEntity(data)]
    /\ UNCHANGED <<message, metadata, result, call, added, calls, delays>>

BuildTripUpdate ==
  \E data \in TripUpdateRecords, predictions \in PredictionLists :
    /\ built.kind = "none"
    /\ built' = [kind |-> "trip_update", data |-> data, predictions |-> predictions,
                 out |-> TripUpdateEntity(data, predictions)]
    /\ UNCHANGED <<message, metadata, result, call, added, calls, delays>>

BuildAlert ==
  /\ built.kind = "none"
  /\ \/ \E data \in AlertRecords \cup AlertTextRecords :
          built' = [kind |-> "alert", data |-> data, out |-> Alert(data)]
     \/ \E keys \in SelectorKeyLists : \E data \in AlertSelectorRecords(keys) :
          built' = [kind |-> "alert", data |-> data, out |-> Alert(data)]
  /\ UNCHANGED <<message, metadata, result, call, added, calls, delays>>

CalculateDelays ==
  \E current_speed \in Speeds, current_acceleration \in Accelerations,
     stop_times \in StopLists, add_delay_to_stop_times \in BOOLEAN :
    /\ delays.kind = "none"
    /\ delays' = [kind |-> "called",
                  current_speed |-> current_speed,
                  current_acceleration |-> current_acceleration,
                  stop_times |-> stop_times,
                  add_delay_to_stop_times |-> add_delay_to_stop_times,
                  out |-> calculate_delays(current_speed, current_acceleration,
                                           stop_times, add_delay_to_stop_times)]
    /\ UNCHANGED <<message, metadata, result, call, added, calls, built>>

Next == generate_avl_feed \/ generate_trip_updates_feed \/ generate_service_alerts_feed

Spec == Init /\ [][Next]_vars

NextBuilders == BuildVehiclePosition \/ BuildTripUpdate \/ BuildAlert

SpecBuilders == Init /\ [][NextBuilders]_vars

NextDelays == CalculateDelays

SpecDelays == Init /\ [][NextDelays]_vars

(* ------------------------------- claims -------------------------------- *)

Entities == GetField(message, <<"entity">>)

Incrementality(is_differential) ==
  IF is_differential THEN "DIFFERENTIAL" ELSE "FULL_DATASET"

\* C1: every generate_avl_feed call with a non-empty batch of valid records,
\* whatever calls preceded it, returns a message whose entity count is the
\* size of the batch and whose header incrementality follows is_differential.
C1_AvlCountAndIncrementality ==
  (call.op = "avl" /\ call.n > 0) =>
    /\ result.kind = "message"
    /\ Len(Entities) = call.n
    /\ message[<<"header", "incrementality">>] = Incrementality(call.is_differential)

RECURSIVE ValuesOf(_, _)
\* the values of a field over the records that carry it, in order
ValuesOf(field, records) ==
  IF Len(records) = 0 THEN <<>>
  ELSE (IF Has(Head(records), field) THEN <<Head(records)[field]>> ELSE <<>>)
       \o ValuesOf(field, Tail(records))

\* C2: when a generation call has finalized, each metadata string is the
\* space-joined list, in insertion order, of that field's values over the
\* entities present in the message that carry the field.
C2_MetadataIsJoinOfEntities ==
  result.kind = "message" =>
    \A i \in 1..Len(fields_to_collect) :
      metadata[MetadataKey[fields_to_collect[i]]]
        = StrOf(JoinSpace(ValuesOf(fields_to_collect[i], added)))

Joined == \E key \in DOMAIN metadata : metadata[key].kind = "str"

\* C3: finalization is single-use: once the metadata has been joined into
\* strings, no later generation call applies the join step to it again (a
\* call that returns a message has run __finalize_metadata).
C3_FinalizeSingleUse ==
  [][(calls' # calls /\ Joined) => result'.kind # "message"]_vars

\* C4: each of the three generation calls returns None, without raising,
\* when its batch holds no record, for either value of is_differential.
C4_EmptyBatchReturnsNone ==
  (call.op # "none" /\ call.n = 0) => result = [kind |-> "None"]

\* an empty trip-updates batch, differential, handed to a constructor that
\* has already produced a message
C4_Witness ==
  /\ call = [op |-> "trip_updates", n |-> 0, is_differential |-> TRUE]
  /\ result.kind = "None"
  /\ Len(Entities) > 0

Payloads == {"vehicle", "trip_update", "alert"}

PayloadsOf(entity) == {p \in Payloads : HasField(entity, <<p>>)}

\* C5: every entity a builder produces carries exactly one of the payloads
\* vehicle, trip_update, alert; a trip-update entity has no vehicle payload.
C5_ExactlyOnePayload ==
  (built.kind # "none" /\ built.out.ok) =>
    /\ Cardinality(PayloadsOf(built.out.entity)) = 1
    /\ (built.kind = "trip_update" => ~HasField(built.out.entity, <<"vehicle">>))

ClampedSpeed(current_speed) == Min(100, Max(10, current_speed))

\* C6: with a non-empty stop sequence and no acceleration supplied,
\* calculate_delays returns the stops with delay = round(d / clamped speed),
\* d the first stop's distance, and with arrival and departure the
\* scheduled times plus that delay.
C6_DefaultAccelerationGivesSpeedDelay ==
  (/\ delays.kind = "called"
   /\ delays.stop_times.given
   /\ Len(delays.stop_times.list) > 0
   /\ ~delays.current_acceleration.given
   /\ delays.add_delay_to_stop_times) =>
    /\ delays.out.kind = "list"
    /\ Len(delays.out.stop_times) = Len(delays.stop_times.list)
    /\ \A i \in 1..Len(delays.stop_times.list) :
         LET t == RoundHalfEven(delays.stop_times.list[1].shape_dist_traveled,
                                ClampedSpeed(delays.current_speed))
         IN /\ delays.out.stop_times[i].delay = t
            /\ delays.out.stop_times[i].arrival = delays.stop_times.list[i].arrival_time + t
            /\ delays.out.stop_times[i].departure
                 = delays.stop_times.list[i].departure_time + t

\* t is a nearest whole number to d / s, for s > 0
NearestToQuotient(t, d, s) == 2 * Abs(t * s - d) <= s

\* t >= 0 is a nearest whole number to sqrt(2d / a), a = h / 2, 2d / a >= 0
NearestToRoot(t, d, h) ==
  /\ t >= 0
  /\ (t = 0 \/ (2 * t - 1) * (2 * t - 1) * Abs(h) <= 16 * Abs(d))
  /\ 16 * Abs(d) <= (2 * t + 1) * (2 * t + 1) * Abs(h)

C8_StopTimeDelaysAreSignedOffsets ==
  (built.kind = "trip_update" /\ built.out.ok /\ built.predictions.given) =>
    LET updates == GetField(built.out.entity, <<"trip_update", "stop_time_update">>)
    IN /\ Len(updates) = Len(built.predictions.list)
       /\ \A i \in 1..Len(updates) :
            /\ updates[i].stop_sequence = built.predictions.list[i].stop_sequence
            /\ updates[i].arrival.delay = built.predictions.list[i].arrival
            /\ updates[i].departure.delay = built.predictions.list[i].departure

PayloadOf(kind) == IF kind = "vehicle_position" THEN "vehicle" ELSE "trip_update"

CarriesAsGiven(entity, path, data, key) ==
  /\ (path \in DOMAIN entity) <=> Has(data, key)
  /\ Has(data, key) => GetField(entity, path) = data[key]

\* C9: the trip reference of the built vehicle-position or trip-update
\* payload carries start_time exactly when the input record has it, and
\* start_date exactly when the input record has it, with the input values.
C9_StartTimeAndDateWhenPresent ==
  (built.kind \in {"vehicle_position", "trip_update"} /\ built.out.ok) =>
    /\ CarriesAsGiven(built.out.entity, <<PayloadOf(built.kind), "trip", "start_time">>,
                      built.data, "start_time")
    /\ CarriesAsGiven(built.out.entity, <<PayloadOf(built.kind), "trip", "start_date">>,
                      built.data, "start_date")

\* the repeated output field each optional input of an alert is written to
AlertOutput ==
  [time_periods |-> <<"alert", "active_period">>,
   selected_entities |-> <<"alert", "informed_entity">>,
   url_data |-> <<"alert", "url", "translation">>,
   header_text_data |-> <<"alert", "header_text", "translation">>,
   description_text_data |-> <<"alert", "description_text", "translation">>]

\* C10: an alert record with cause and effect and some of its five
\* sub-structures absent is built without raising, and the output fields of
\* the absent sub-structures are empty.
C10_AlertAbsentSafe ==
  (/\ built.kind = "alert"
   /\ {"cause", "effect"} \subseteq DOMAIN built.data
   /\ AlertOptional \ DOMAIN built.data # {}) =>
    /\ built.out.ok
    /\ \A k \in AlertOptional \ DOMAIN built.data :
         GetField(built.out.entity, AlertOutput[k]) = <<>>

TextBlocks == {"url_data", "header_text_data", "description_text_data"}

\* C11: in a built alert the url, header_text and description_text
\* translation lists hold exactly the (text, language) pairs of url_data,
\* header_text_data and description_text_data, one per pair, in input order.
C11_TranslationsOneToOne ==
  (built.kind = "alert" /\ built.out.ok) =>
    \A k \in TextBlocks :
      GetField(built.out.entity, AlertOutput[k])
        = [i \in 1..Len(built.data[k]) |->
             [text |-> built.data[k][i].text, language |-> built.data[k][i].language]]

\* the selector types populate_entity_selector is documented to know
SelectorTypes == {"routes", "agencies", "route_types", "trips"}

RECURSIVE ItemsListed(_, _)
\* the number of items listed under selector types in the first n keys
ItemsListed(selected, n) ==
  IF n = 0 THEN 0
  ELSE ItemsListed(selected, n - 1)
       + (IF selected[n].key \in SelectorTypes THEN Len(selected[n].items) ELSE 0)

\* the selector carries the fields of item's type, with item's values, and
\* no other field
CarriesOnly(selector, key, item) ==
  CASE key = "routes" ->
         DOMAIN selector = {<<"route_id">>} /\ selector[<<"route_id">>] = item
    [] key = "agencies" ->
         DOMAIN selector = {<<"agency_id">>} /\ selector[<<"agency_id">>] = item
    [] key = "route_types" ->
         DOMAIN selector = {<<"route_type">>} /\ selector[<<"route_type">>] = item
    [] key = "trips" ->
         /\ DOMAIN selector = {<<"trip", k>> : k \in DOMAIN item}
         /\ \A k \in DOMAIN item : selector[<<"trip", k>>] = item[k]

\* C12: the informed entities of a built alert are, in the key order of
\* selected_entities, one selector per item listed under routes, agencies,
\* route_types and trips, each carrying only the fields of its type; any
\* other key adds no selector and raises nothing.
C12_InformedEntitiesInKeyOrder ==
  (built.kind = "alert" /\ \A k \in DOMAIN FullAlert \ {"agency_id"} : Has(built.data, k)) =>
    /\ built.out.ok
    /\ LET selected == built.data.selected_entities
           informed == GetField(built.out.entity, AlertOutput.selected_entities)
       IN /\ Len(informed) = ItemsListed(selected, Len(selected))
          /\ \A n \in 1..Len(selected) :
               selected[n].key \in SelectorTypes =>
                 \A i \in 1..Len(selected[n].items) :
                   CarriesOnly(informed[ItemsListed(selected, n - 1) + i],
                               selected[n].key, selected[n].items[i])

\* {'stops': ['S'], 'routes': ['A', 'B']} built into exactly two selectors,
\* each with a route id and nothing else
C12_Witness ==
  /\ built.kind = "alert"
  /\ built.out.ok
  /\ Len(built.data.selected_entities) = 2
  /\ built.data.selected_entities[1].key = "stops"
  /\ Len(built.data.selected_entities[1].items) = 1
  /\ built.data.selected_entities[2].key = "routes"
  /\ built.data.selected_entities[2].items = <<<<"A">>, <<"B">>>>
  /\ LET informed == GetField(built.out.entity, AlertOutput.selected_entities)
     IN /\ Len(informed) = 2
        /\ \A i \in 1..2 : DOMAIN informed[i] = {<<"route_id">>}
        /\ informed[1][<<"route_id">>] = <<"A">>
        /\ informed[2][<<"route_id">>] = <<"B">>

\* C13: calculate_delays lets no square-root domain error reach its caller:
\* when the acceleration rounds to a nonzero integer and the first stop's
\* distance is negative, so that 2d/a is negative, the call does not raise
\* ValueError.
C13_NoSquareRootDomainError ==
  (/\ delays.kind = "called"
   /\ delays.stop_times.given
   /\ Len(delays.stop_times.list) > 0
   /\ delays.current_acceleration.given
   /\ RoundsToNonzero(delays.current_acceleration)
   /\ delays.current_acceleration.halves > 0
   /\ delays.stop_times.list[1].shape_dist_traveled < 0) =>
    ~(delays.out.kind = "raised" /\ delays.out.exc = "ValueError")

====
